---------------------------- MODULE Spec2Model ----------------------------
(* Training / evaluation orchestration of cnn/model.py:                    *)
(* BaseBinaryClassifier.evaluate, BaseBinaryClassifier.fit and the         *)
(* cross-validation driver under __main__.                                 *)
(*                                                                         *)
(* Floats are modelled as non-negative rationals [num, den] with           *)
(* float("inf") = 1/0.  Scores handed to _get_classes are in tenths.       *)
(* A batch is named by the tag <<epoch, loader, index>> of the place the   *)
(* loop was at when it was fetched; what a batch contributes to a buffer   *)
(* is its tag.                                                             *)
EXTENDS Integers, Sequences, FiniteSets, TLC

VARIABLES
    num_epochs,     \* fit's num_epochs argument
    fold,           \* the driver's loop variable
    pc,             \* where control is
    _epoch,         \* fit's loop variable e (epochs of the fold completed)
    dl,             \* index in data_loaders of the loader being iterated
    i,              \* batches of that loader already fetched
    train_lens,     \* len() of every loader of data_loaders, in list order
    val_len,        \* len(validation_data_loader)
    objs,           \* identities of net, optim, train_loaders, val_loader
    next_id,        \* next free object identity
    instances,      \* the objs of every fold started, in order
    params,         \* optimizer steps applied to net's parameters
    grads,          \* the batch whose gradient the parameters hold
    training,       \* nn.Module.training of net
    bn_batches,     \* batches that updated net's BatchNorm running statistics
    _predictions,   \* net's shared predictions cache
    best_loss,      \* fit's best_loss
    scores,         \* the driver's scores
    val_buf,        \* evaluate's local all_targets/all_predictions/all_probs/losses
    vi,             \* validation batches already fetched
    train_metrics,  \* what evaluate computed the training record from
    stats,          \* val_loss of the record evaluate returned
    seen,           \* validation losses of the fold's earlier epochs
    disk,           \* checkpoint files: path -> content
    trained,        \* batches trained in the running epoch, in order
    n_evals,        \* evaluate calls of the fold that returned
    n_saves,        \* save calls of the fold
    last_save,      \* path and is_best of the fold's last save call
    n_resets,       \* _reset_predictions_cache calls of the fold
    error,          \* the exception that ended the run, or "none"
    abort_at,       \* the place that raised it
    pred_in,        \* _get_classes: the scores handed in
    pred_y          \* _get_classes: the classes returned

vars == << num_epochs, fold, pc, _epoch, dl, i, train_lens, val_len, objs,
           next_id, instances, params, grads, training, bn_batches,
           _predictions,
           best_loss, scores, val_buf, vi, train_metrics, stats, seen, disk,
           trained, n_evals, n_saves, last_save, n_resets, error, abort_at,
           pred_in, pred_y >>

-----------------------------------------------------------------------------
(* Bounds *)

MaxFolds == 2
MaxEpochs == 2
MaxLoss == 1
MaxScore == 10

(* len() of the training loaders a fold may be given: no loader, an empty *)
(* loader, one loader, several loaders, an empty loader among others.     *)
TrainLoaderLens == { << >>, <<0>>, <<1>>, <<2, 1>>, <<1, 0, 1>> }

(* len() of the validation loader a fold may be given. *)
ValLoaderLens == {0, 1, 2}

-----------------------------------------------------------------------------
(* Floats *)

Float(n, d) == [num |-> n, den |-> d]

Inf == Float(1, 0)

Lt(a, b) == a.num * b.den < b.num * a.den

FloatEq(a, b) == ~Lt(a, b) /\ ~Lt(b, a)

IsInf(a) == a.den = 0

LossVals == {Float(n, 1) : n \in 0..MaxLoss} \cup {Inf}

RECURSIVE SumNum(_)
SumNum(s) == IF s = << >> THEN 0 ELSE Head(s).num + SumNum(Tail(s))

(* sum(losses) / len(losses); the caller has len(losses) > 0 *)
Mean(s) ==
    IF \E k \in 1..Len(s) : IsInf(s[k]) THEN Inf ELSE Float(SumNum(s), Len(s))

PyMin(a, b) == IF Lt(b, a) THEN b ELSE a

-----------------------------------------------------------------------------
(* _get_classes *)

Half == 5

Scores == 0..MaxScore

_get_classes_ge(p) == IF p >= Half THEN 1 ELSE 0

_get_classes(p) == IF p > Half THEN 1 ELSE 0

-----------------------------------------------------------------------------
(* BaseModel: the predictions cache and the checkpoint files *)

EmptyCache ==
    [target |-> << >>, predicted |-> << >>, probs |-> << >>, train_loss |-> << >>]

_accumulate_results(cache, target, predicted, loss, probs) ==
    [target     |-> Append(cache.target, target),
     predicted  |-> Append(cache.predicted, predicted),
     probs      |-> Append(cache.probs, probs),
     train_loss |-> Append(cache.train_loss, loss)]

_reset_predictions_cache == EmptyCache

LatestPath(epoch, f) == <<"clf", epoch, f>>

BestPath(f) == <<"best", 0, f>>

(* save(path, optim, is_best): the state goes to path, and to the fold's *)
(* best_model_name as well when is_best.                                 *)
save(d, path, best_model_name, content, is_best) ==
    LET latest == [p \in DOMAIN d \cup {path} |->
                       IF p = path THEN content ELSE d[p]]
    IN  IF is_best
        THEN [p \in DOMAIN latest \cup {best_model_name} |->
                  IF p = best_model_name THEN content ELSE latest[p]]
        ELSE latest

-----------------------------------------------------------------------------
(* The run *)

NoSave == [path |-> << >>, is_best |-> FALSE]

NoObjs == [net |-> 0, optim |-> 0, train_loaders |-> << >>, val_loader |-> 0]

EmptyBuf ==
    [all_targets |-> << >>, all_predictions |-> << >>, all_probs |-> << >>,
     losses |-> << >>]

NoMetrics == [train_loss |-> << >>, target |-> << >>, predicted |-> << >>,
              probs |-> << >>]

Init ==
    /\ num_epochs \in 0..MaxEpochs
    /\ fold = 0
    /\ pc = "driver"
    /\ _epoch = 0
    /\ dl = 0
    /\ i = 0
    /\ train_lens \in TrainLoaderLens
    /\ val_len \in ValLoaderLens
    /\ objs = NoObjs
    /\ next_id = 1
    /\ instances = << >>
    /\ params = 0
    /\ grads = << >>
    /\ training = TRUE
    /\ bn_batches = 0
    /\ _predictions = EmptyCache
    /\ best_loss = Inf
    /\ scores = << >>
    /\ val_buf = EmptyBuf
    /\ vi = 0
    /\ train_metrics = NoMetrics
    /\ stats = Inf
    /\ seen = {}
    /\ disk = << >>
    /\ trained = << >>
    /\ n_evals = 0
    /\ n_saves = 0
    /\ last_save = NoSave
    /\ n_resets = 0
    /\ error = "none"
    /\ abort_at = "none"
    /\ pred_in = << >>
    /\ pred_y = << >>

classify_vars == << pred_in, pred_y >>

(* An exception nothing catches: it leaves evaluate, fit and the driver. *)
Raise(exc, where) ==
    /\ pc' = "aborted"
    /\ error' = exc
    /\ abort_at' = where

(* net = LeNet(fold_number=fold), kept by a driver that built it once *)
SharedNet ==
    IF fold = 0
    THEN [id |-> next_id, params |-> 0, training |-> TRUE, bn |-> 0,
          cache |-> EmptyCache]
    ELSE [id |-> objs.net, params |-> params, training |-> training,
          bn |-> bn_batches, cache |-> _predictions]

(* net = LeNet(fold_number=fold): a new module, in training mode, with *)
(* freshly initialised parameters and an empty predictions cache.      *)
LeNet ==
    [id |-> next_id, params |-> 0, training |-> TRUE, bn |-> 0,
     cache |-> EmptyCache]

(* One iteration of "for fold in folds" up to the call of fit, and fit's *)
(* first line.                                                           *)
FoldStart ==
    /\ pc = "driver"
    /\ fold < MaxFolds
    /\ LET net == LeNet
           loaders == [k \in 1..Len(train_lens) |-> next_id + k]
           made == [net |-> net.id,
                    train_loaders |-> loaders,
                    val_loader |-> next_id + Len(train_lens) + 1,
                    optim |-> next_id + Len(train_lens) + 2]
       IN  /\ objs' = made
           /\ next_id' = next_id + Len(train_lens) + 3
           /\ instances' = Append(instances, made)
           /\ params' = net.params
           /\ training' = net.training
           /\ bn_batches' = net.bn
           /\ _predictions' = net.cache
    /\ grads' = << >>
    /\ best_loss' = Inf
    /\ _epoch' = 0
    /\ seen' = {}
    /\ n_evals' = 0
    /\ n_saves' = 0
    /\ last_save' = NoSave
    /\ n_resets' = 0
    /\ trained' = << >>
    /\ pc' = "for_epoch"
    /\ UNCHANGED << num_epochs, fold, dl, i, train_lens, val_len, scores,
                    val_buf, vi, train_metrics, stats, disk, error, abort_at,
                    classify_vars >>

(* for e in range(num_epochs): self._epoch = e *)
EpochStart ==
    /\ pc = "for_epoch"
    /\ _epoch < num_epochs
    /\ dl' = 1
    /\ i' = 0
    /\ trained' = << >>
    /\ pc' = "train"
    /\ UNCHANGED << num_epochs, fold, _epoch, train_lens, val_len, objs,
                    next_id, instances, params, grads, training, bn_batches,
                    _predictions, best_loss, scores, val_buf, vi,
                    train_metrics, stats, seen, disk, n_evals, n_saves, last_save,
                    n_resets, error, abort_at, classify_vars >>

iter_per_epoch_short(k) == IF train_lens[k] > 0 THEN train_lens[k] - 1 ELSE 0

(* iter_per_epoch = len(data_loader) *)
iter_per_epoch(k) == train_lens[k]

(* The forward pass: BatchNorm layers update their running statistics *)
(* in training mode only.                                             *)
Forward(bn) == IF training THEN bn + 1 ELSE bn

switch_to_eval_off == FALSE

(* fit calls evaluate with switch_to_eval=True *)
switch_to_eval == TRUE

Tag(k, n) == <<_epoch, k, n>>

fit_vars == << num_epochs, fold, train_lens, val_len, objs, next_id,
               instances, scores >>

(* The body of "for i in range(iter_per_epoch)": fetch, predict, *)
(* zero_grad, loss, backward, step, _accumulate_results.         *)
TrainBatch ==
    /\ pc = "train"
    /\ dl <= Len(train_lens)
    /\ i < iter_per_epoch(dl)
    /\ LET b == Tag(dl, i + 1)
       IN  /\ bn_batches' = Forward(bn_batches)
           /\ grads' = b
           /\ params' = params + 1
           /\ _predictions' = _accumulate_results(_predictions, b, b, b, b)
           /\ trained' = Append(trained, b)
    /\ i' = i + 1
    /\ UNCHANGED << fit_vars, pc, _epoch, dl, training, best_loss, val_buf,
                    vi, train_metrics, stats, seen, disk, n_evals, n_saves, last_save,
                    n_resets, error, abort_at, classify_vars >>

(* "for data_loader in data_loaders": the loader is exhausted, take the *)
(* next one.                                                            *)
NextLoader ==
    /\ pc = "train"
    /\ dl <= Len(train_lens)
    /\ i = iter_per_epoch(dl)
    /\ dl' = dl + 1
    /\ i' = 0
    /\ UNCHANGED << fit_vars, pc, _epoch, params, grads, training,
                    bn_batches, _predictions, best_loss, val_buf, vi,
                    train_metrics, stats, seen, disk, trained, n_evals,
                    n_saves, last_save, n_resets, error, abort_at, classify_vars >>

FirstLoaderExhausted == dl > 1

(* "for data_loader in data_loaders" has run out of loaders *)
LoadersExhausted == dl > Len(train_lens)

(* evaluate, up to the validation loop: pop train_loss, its mean, the *)
(* training metrics, self.eval().                                     *)
EvaluateBegin ==
    /\ pc = "train"
    /\ LoadersExhausted
    /\ LET train_losses == _predictions.train_loss
           popped == [_predictions EXCEPT !.train_loss = << >>]
       IN  /\ _predictions' = popped
           /\ \E raises \in BOOLEAN :
                IF Len(train_losses) = 0
                THEN /\ Raise("ZeroDivisionError", "train_loss")
                     /\ UNCHANGED << training, train_metrics, val_buf, vi >>
                ELSE IF raises
                THEN /\ Raise("MetricError", "train_metrics")
                     /\ UNCHANGED << training, train_metrics, val_buf, vi >>
                ELSE /\ train_metrics' =
                            [train_loss |-> train_losses,
                             target |-> popped.target,
                             predicted |-> popped.predicted,
                             probs |-> popped.probs]
                     /\ training' = IF switch_to_eval THEN FALSE ELSE training
                     /\ val_buf' = EmptyBuf
                     /\ vi' = 0
                     /\ pc' = "val"
                     /\ UNCHANGED << error, abort_at >>
    /\ UNCHANGED << fit_vars, _epoch, dl, i, params, grads, bn_batches,
                    best_loss, stats, seen, disk, trained, n_evals, n_saves, last_save,
                    n_resets, classify_vars >>

(* The body of evaluate's "for i in range(iter_per_epoch)". *)
ValBatch ==
    /\ pc = "val"
    /\ vi < val_len
    /\ \E raises \in BOOLEAN, loss \in LossVals :
         IF raises
         THEN /\ Raise("BatchError", "val_batch")
              /\ UNCHANGED << val_buf, vi, bn_batches >>
         ELSE LET b == Tag(0, vi + 1)
              IN  /\ bn_batches' = Forward(bn_batches)
                  /\ val_buf' =
                       [all_targets |-> Append(val_buf.all_targets, b),
                        all_predictions |-> Append(val_buf.all_predictions, b),
                        all_probs |-> Append(val_buf.all_probs, b),
                        losses |-> Append(val_buf.losses, loss)]
                  /\ vi' = vi + 1
                  /\ UNCHANGED << pc, error, abort_at >>
    /\ UNCHANGED << fit_vars, _epoch, dl, i, params, grads, training,
                    _predictions, best_loss, train_metrics, stats, seen,
                    disk, trained, n_evals, n_saves, last_save, n_resets,
                    classify_vars >>

CacheNotReset == _predictions

(* self._reset_predictions_cache() as evaluate's last statement *)
CacheAfterEvaluate == _reset_predictions_cache

(* evaluate, after the validation loop: the validation metrics, the mean *)
(* of losses, self.train(), the two log records, the cache reset.        *)
EvaluateEnd ==
    /\ pc = "val"
    /\ vi = val_len
    /\ \E raises \in BOOLEAN :
         IF raises
         THEN /\ Raise("MetricError", "val_metrics")
              /\ UNCHANGED << training, _predictions, stats, n_evals,
                              n_resets, val_buf, vi >>
         ELSE IF Len(val_buf.losses) = 0
         THEN /\ Raise("ZeroDivisionError", "val_loss")
              /\ UNCHANGED << training, _predictions, stats, n_evals,
                              n_resets, val_buf, vi >>
         ELSE /\ stats' = Mean(val_buf.losses)
              /\ training' = IF switch_to_eval THEN TRUE ELSE training
              /\ _predictions' = CacheAfterEvaluate
              /\ n_resets' = n_resets + 1
              /\ n_evals' = n_evals + 1
              \* the call returns: its local buffers are gone
              /\ val_buf' = EmptyBuf
              /\ vi' = 0
              /\ pc' = "checkpoint"
              /\ UNCHANGED << error, abort_at >>
    /\ UNCHANGED << fit_vars, _epoch, dl, i, params, grads, bn_batches,
                    best_loss, train_metrics, seen, disk, trained, n_saves,
                    last_save, classify_vars >>

IsBestOrTie(val_loss, best) == ~Lt(best, val_loss)

(* is_best = stats["val_loss"] < best_loss *)
IsBest(val_loss, best) == Lt(val_loss, best)

LastLoss(best, val_loss) == val_loss

(* best_loss = min(best_loss, stats["val_loss"]) *)
NewBest(best, val_loss) == PyMin(best, val_loss)

(* The three lines of fit after evaluate returns. *)
Checkpoint ==
    /\ pc = "checkpoint"
    /\ LET is_best == IsBest(stats, best_loss)
       IN  /\ best_loss' = NewBest(best_loss, stats)
           /\ disk' = save(disk, LatestPath(_epoch + 1, fold), BestPath(fold),
                           [epoch |-> _epoch + 1, fold |-> fold,
                            params |-> params],
                           is_best)
           /\ last_save' = [path |-> LatestPath(_epoch + 1, fold),
                             is_best |-> is_best]
    /\ n_saves' = n_saves + 1
    /\ seen' = seen \cup {stats}
    /\ _epoch' = _epoch + 1
    /\ pc' = "for_epoch"
    /\ UNCHANGED << fit_vars, dl, i, params, grads, training, bn_batches,
                    _predictions, val_buf, vi, train_metrics, stats, trained,
                    n_evals, n_resets, error, abort_at, classify_vars >>

(* return best_loss; scores.append(best); the next fold *)
FitReturn ==
    /\ pc = "for_epoch"
    /\ _epoch >= num_epochs
    /\ scores' = Append(scores, best_loss)
    /\ fold' = fold + 1
    /\ pc' = "driver"
    /\ UNCHANGED << num_epochs, _epoch, dl, i, train_lens, val_len, objs,
                    next_id, instances, params, grads, training, bn_batches,
                    _predictions, best_loss, val_buf, vi, train_metrics,
                    stats, seen, disk, trained, n_evals, n_saves, last_save, n_resets,
                    error, abort_at, classify_vars >>

(* print(scores) *)
Finish ==
    /\ pc = "driver"
    /\ fold >= MaxFolds
    /\ pc' = "done"
    /\ UNCHANGED << num_epochs, fold, _epoch, dl, i, train_lens, val_len,
                    objs, next_id, instances, params, grads, training,
                    bn_batches, _predictions, best_loss, scores, val_buf, vi,
                    train_metrics, stats, seen, disk, trained, n_evals,
                    n_saves, last_save, n_resets, error, abort_at, classify_vars >>

Next ==
    \/ FoldStart
    \/ EpochStart
    \/ TrainBatch
    \/ NextLoader
    \/ EvaluateBegin
    \/ ValBatch
    \/ EvaluateEnd
    \/ Checkpoint
    \/ FitReturn
    \/ Finish

Spec == Init /\ [][Next]_vars

-----------------------------------------------------------------------------
(* _get_classes alone, on every batch of two scores *)

InitClassify ==
    /\ num_epochs = 0
    /\ fold = 0
    /\ pc = "classify"
    /\ _epoch = 0
    /\ dl = 0
    /\ i = 0
    /\ train_lens = << >>
    /\ val_len = 0
    /\ objs = NoObjs
    /\ next_id = 1
    /\ instances = << >>
    /\ params = 0
    /\ grads = << >>
    /\ training = TRUE
    /\ bn_batches = 0
    /\ _predictions = EmptyCache
    /\ best_loss = Inf
    /\ scores = << >>
    /\ val_buf = EmptyBuf
    /\ vi = 0
    /\ train_metrics = NoMetrics
    /\ stats = Inf
    /\ seen = {}
    /\ disk = << >>
    /\ trained = << >>
    /\ n_evals = 0
    /\ n_saves = 0
    /\ last_save = NoSave
    /\ n_resets = 0
    /\ error = "none"
    /\ abort_at = "none"
    /\ pred_in \in [1..2 -> Scores]
    /\ pred_y = << >>

(* classes = (predictions.data > 0.5).float(); pred_y = classes...squeeze() *)
Classify ==
    /\ pc = "classify"
    /\ pred_y' = [k \in DOMAIN pred_in |-> _get_classes(pred_in[k])]
    /\ pc' = "classified"
    /\ UNCHANGED << num_epochs, fold, _epoch, dl, i, train_lens, val_len,
                    objs, next_id, instances, params, grads, training,
                    bn_batches, _predictions, best_loss, scores, val_buf, vi,
                    train_metrics, stats, seen, disk, trained, n_evals,
                    n_saves, last_save, n_resets, error, abort_at, pred_in >>

NextClassify == Classify

SpecClassify == InitClassify /\ [][NextClassify]_vars

-----------------------------------------------------------------------------
(* Properties *)

InFold == pc \in {"for_epoch", "train", "val", "checkpoint"}

(* b is the least element of S, +infinity when S is empty *)
IsMin(b, S) ==
    /\ \A v \in S : ~Lt(v, b)
    /\ IF S = {} THEN b = Inf ELSE \E v \in S : FloatEq(v, b)

RECURSIVE SumLens(_)
SumLens(s) == IF s = << >> THEN 0 ELSE Head(s) + SumLens(Tail(s))

RECURSIVE BatchesFrom(_, _)
(* the batches of loaders k.. of the running epoch, in list order *)
BatchesFrom(k, e) ==
    IF k > Len(train_lens) THEN << >>
    ELSE [n \in 1..train_lens[k] |-> <<e, k, n>>] \o BatchesFrom(k + 1, e)

EpochBatches(e) == BatchesFrom(1, e)

IsPrefix(s, t) == Len(s) <= Len(t) /\ s = SubSeq(t, 1, Len(s))

(* C1: best_loss starts at +infinity, is the minimum of the validation    *)
(* losses of the fold's completed epochs after every epoch, and the value *)
(* the driver appends for a fold is that minimum after num_epochs epochs  *)
(* (+infinity when num_epochs is 0).                                      *)
C1_BestLossIsMinimum ==
    /\ InFold => IsMin(best_loss, seen)
    /\ (pc = "for_epoch" /\ _epoch = 0) => best_loss = Inf
    /\ (pc = "driver" /\ fold > 0) =>
           /\ Len(scores) = fold
           /\ n_evals = num_epochs
           /\ IsMin(scores[fold], seen)
           /\ (num_epochs = 0 => scores[fold] = Inf)

C1_Witness ==
    /\ pc = "driver"
    /\ fold = 2
    /\ num_epochs = 2
    /\ Cardinality(seen) = 2
    /\ scores[1] = Inf
    /\ scores[2] = Float(1, 2)

(* C2 as amended: every epoch issues exactly one save, to the path of the *)
(* 1-based epoch and the fold, flagged is_best exactly when the epoch's   *)
(* validation loss is strictly below the best of the fold's earlier       *)
(* epochs (+infinity when there is none); the first epoch is flagged best *)
(* exactly when its loss is below +infinity, and a tie is not flagged and *)
(* leaves the best checkpoint as it was.                                  *)
C2_SaveStep ==
    IF pc = "checkpoint"
    THEN /\ n_saves' = n_saves + 1
         /\ last_save'.path = LatestPath(_epoch + 1, fold)
         /\ last_save'.path \notin DOMAIN disk
         /\ last_save'.path \in DOMAIN disk'
         /\ \A b \in seen \cup {Inf} :
                IsMin(b, seen) => (last_save'.is_best <=> Lt(stats, b))
         /\ (_epoch = 0 => (last_save'.is_best <=> ~IsInf(stats)))
         /\ ((\E v \in seen : FloatEq(v, stats)) => ~last_save'.is_best)
         /\ IF last_save'.is_best
            THEN disk'[BestPath(fold)].epoch = _epoch + 1
            ELSE /\ (BestPath(fold) \in DOMAIN disk') =
                        (BestPath(fold) \in DOMAIN disk)
                 /\ BestPath(fold) \in DOMAIN disk =>
                        disk'[BestPath(fold)] = disk[BestPath(fold)]
    ELSE /\ disk' = disk
         /\ (pc' # "for_epoch" \/ pc # "driver") =>
                (n_saves' = n_saves /\ last_save' = last_save)

C2_SaveOncePerEpoch ==
    /\ [](InFold => n_saves = (IF pc = "checkpoint" THEN n_evals - 1
                                                   ELSE n_evals))
    /\ []((pc = "driver" /\ fold > 0) => n_saves = num_epochs)
    /\ [][C2_SaveStep]_vars

C2_Witness ==
    /\ pc = "for_epoch"
    /\ _epoch = 2
    /\ ~last_save.is_best
    /\ FloatEq(stats, best_loss)
    /\ ~IsInf(stats)
    /\ disk[BestPath(fold)].epoch = 1

(* C2 as claimed: one save per epoch, and the first epoch's checkpoint is *)
(* flagged best.                                                          *)
C2_FirstEpochIsBest ==
    /\ (InFold /\ pc # "checkpoint") => n_saves = _epoch
    /\ (pc = "for_epoch" /\ _epoch = 1) =>
           (last_save.is_best /\ BestPath(fold) \in DOMAIN disk)

(* C3: in a fold the phases run Train, Evaluate, Checkpoint, num_epochs  *)
(* times: evaluate starts only when every loader has given len(loader)   *)
(* batches in list order, it is called once per epoch, and save is       *)
(* called once after it returns and before the next epoch trains.        *)
C3_PhaseOrder ==
    /\ pc = "for_epoch" => (n_evals = _epoch /\ n_saves = _epoch)
    /\ pc = "train" =>
           /\ n_evals = _epoch /\ n_saves = _epoch
           /\ IsPrefix(trained, EpochBatches(_epoch))
           /\ dl <= Len(train_lens) =>
                  Len(trained) = SumLens(SubSeq(train_lens, 1, dl - 1)) + i
    /\ pc = "val" =>
           /\ n_evals = _epoch /\ n_saves = _epoch
           /\ trained = EpochBatches(_epoch)
    /\ pc = "checkpoint" =>
           /\ n_evals = _epoch + 1 /\ n_saves = _epoch
           /\ trained = EpochBatches(_epoch)
    /\ (pc = "driver" /\ fold > 0) =>
           (_epoch = num_epochs /\ n_evals = num_epochs /\ n_saves = num_epochs)

C3_Witness ==
    /\ pc = "checkpoint"
    /\ _epoch = 1
    /\ train_lens = <<2, 1>>
    /\ trained = << <<1, 1, 1>>, <<1, 1, 2>>, <<1, 2, 1>> >>

(* C4: the cache is reset once per epoch, after the training metrics were *)
(* computed and before the next epoch trains: every epoch starts training *)
(* on an empty cache and its training metrics are computed from exactly   *)
(* the batches trained in that epoch.                                     *)
C4_ResetPerEpoch ==
    /\ pc = "for_epoch" => (_predictions = EmptyCache /\ n_resets = _epoch)
    /\ pc = "train" =>
           /\ n_resets = _epoch
           /\ _predictions.target = trained
           /\ _predictions.predicted = trained
           /\ _predictions.probs = trained
           /\ _predictions.train_loss = trained
    /\ pc \in {"val", "checkpoint"} =>
           /\ n_resets = (IF pc = "val" THEN _epoch ELSE _epoch + 1)
           /\ train_metrics.train_loss = EpochBatches(_epoch)
           /\ train_metrics.target = EpochBatches(_epoch)
           /\ train_metrics.predicted = EpochBatches(_epoch)
           /\ train_metrics.probs = EpochBatches(_epoch)

C4_Witness ==
    /\ pc = "val"
    /\ _epoch = 1
    /\ n_resets = 1
    /\ train_metrics.target = << <<1, 1, 1>>, <<1, 1, 2>>, <<1, 2, 1>> >>

ExitedEvaluate ==
    \/ pc = "checkpoint"
    \/ /\ pc = "aborted"
       /\ abort_at \in {"train_loss", "train_metrics", "val_batch",
                        "val_metrics", "val_loss"}

(* C5: with switch_to_eval the classifier is in inference mode at every *)
(* validation forward pass and in training mode on every exit from      *)
(* evaluate, the exits by an exception included.                        *)
C5_TrainModeOnEveryExit ==
    /\ pc = "val" => ~training
    /\ ExitedEvaluate => training

(* C6: evaluate called with an empty train_loss fails with NoTrainingData *)
(* and does not divide by zero.                                           *)
C6_NoTrainingData ==
    /\ pc \in {"val", "checkpoint"} => train_metrics.train_loss # << >>
    /\ (pc = "aborted" /\ abort_at = "train_loss") =>
           (error = "NoTrainingData" /\ error # "ZeroDivisionError")

(* C7: when the training part of an epoch is over, target, predicted and *)
(* probs hold as many batches as each other and train_loss holds one     *)
(* entry per batch trained, the sum of len(loader) over the loaders.     *)
C7_CacheLengths ==
    (pc = "train" /\ dl > Len(train_lens)) =>
        /\ Len(_predictions.target) = Len(_predictions.predicted)
        /\ Len(_predictions.target) = Len(_predictions.probs)
        /\ Len(_predictions.train_loss) = SumLens(train_lens)
        /\ Len(_predictions.train_loss) = Len(trained)

C7_Witness ==
    /\ pc = "train"
    /\ dl > Len(train_lens)
    /\ _epoch = 1
    /\ train_lens = <<1, 0, 1>>
    /\ Len(_predictions.train_loss) = 2

Ids(o) ==
    {o.net, o.optim, o.val_loader} \cup
    {o.train_loaders[k] : k \in DOMAIN o.train_loaders}

(* C8: consecutive folds run with distinct Classifier, optimizer and    *)
(* BatchSource objects, and a fold starts from fresh parameters, an     *)
(* empty cache and best_loss = +infinity whatever the fold before did.  *)
C8_FreshInstancesPerFold ==
    /\ \A k \in 1..(Len(instances) - 1) :
           Ids(instances[k]) \cap Ids(instances[k + 1]) = {}
    /\ \A k \in 1..Len(instances) :
           Cardinality(Ids(instances[k])) = 3 + Len(train_lens)
    /\ (pc = "for_epoch" /\ _epoch = 0) =>
           /\ params = 0
           /\ bn_batches = 0
           /\ grads = << >>
           /\ training
           /\ _predictions = EmptyCache
           /\ best_loss = Inf

C8_Witness ==
    /\ pc = "for_epoch"
    /\ _epoch = 0
    /\ fold = 1
    /\ Len(instances) = 2
    /\ num_epochs = 2
    /\ LatestPath(2, 0) \in DOMAIN disk
    /\ disk[LatestPath(2, 0)].params = 6
    /\ ~IsInf(scores[1])

(* C9: _get_classes gives 1.0 to a score above 0.5 and 0.0 to any other, *)
(* 0.5 itself included.                                                  *)
C9_ThresholdExcluded ==
    pc = "classified" =>
        \A k \in DOMAIN pred_in :
            /\ pred_in[k] = Half => pred_y[k] = 0
            /\ pred_in[k] > Half => pred_y[k] = 1
            /\ pred_in[k] < Half => pred_y[k] = 0
            /\ \A m \in DOMAIN pred_in :
                   (pred_in[k] > Half /\ Half >= pred_in[m]) =>
                       (pred_y[k] = 1 /\ pred_y[m] = 0)

C9_Witness ==
    /\ pc = "classified"
    /\ pred_in = <<6, 5>>
    /\ pred_y = <<1, 0>>

(* C10: a validation batch takes no optimizer step, changes no gradient *)
(* and no running statistic, and appends to evaluate's local buffers    *)
(* only, never to the shared cache.                                     *)
C10_ValStep ==
    pc = "val" =>
        /\ params' = params
        /\ grads' = grads
        /\ bn_batches' = bn_batches
        /\ vi < val_len => _predictions' = _predictions
        /\ (vi < val_len /\ pc' = "val") =>
               /\ Len(val_buf'.all_targets) = Len(val_buf.all_targets) + 1
               /\ Len(val_buf'.all_predictions) = Len(val_buf.all_predictions) + 1
               /\ Len(val_buf'.all_probs) = Len(val_buf.all_probs) + 1
               /\ Len(val_buf'.losses) = Len(val_buf.losses) + 1

C10_ValidationLeavesTrainingState == [][C10_ValStep]_vars

C10_Witness ==
    /\ pc = "val"
    /\ vi = 2
    /\ params = 3
    /\ grads = <<0, 2, 1>>
    /\ Len(val_buf.losses) = 2
    /\ _predictions.target # << >>

=============================================================================
